---- MODULE Spec2Model ----
(***************************************************************************)
(* The OTP verification flows of BeejSeBazaar-Backend: the in-memory       *)
(* otpSessions map and its periodic sweep (src/routes.ts), the Cognito     *)
(* adapter (src/cognito.ts) and the two Mongoose collections               *)
(* (src/models.ts).                                                        *)
(*                                                                         *)
(* Strings of the program whose characters the code inspects (Aadhaar      *)
(* numbers, names, passwords, OTPs, phones) are sequences of one-character *)
(* strings.  Node runs one handler at a time and a handler gives up        *)
(* control only at an await, so the code between two awaits is one action. *)
(* A database read is taken at the action that consumes its result; the    *)
(* request may have been issued at any earlier moment.                     *)
(***************************************************************************)
EXTENDS Integers, Sequences, FiniteSets, Bags, TLC

----------------------------------------------------------------------------
(* Bounds of the exploration *)

\* requests that may be suspended at an await at the same time
MaxInflight == 2
\* distinct (token, session) pairs the store is ever given
MaxStarts == 2
\* clock readings explored after each multiple of the sweep interval
MaxJitter == 1
\* the last clock reading at which a session is created
MaxCreateTime == 0

----------------------------------------------------------------------------
(* Program constants *)

\* routes.ts:23   now - session.timestamp > 10 * 60 * 1000
TTL == 10 * 60 * 1000
\* routes.ts:27   setInterval(..., 5 * 60 * 1000)
SWEEP_INTERVAL == 5 * 60 * 1000

\* The clock is followed until every session that could be created is past
\* the sweep that removes it.
ClockEnd == TTL + SWEEP_INTERVAL + MaxJitter

----------------------------------------------------------------------------
(* Characters and regular expressions *)

Digits == {"0", "1", "2", "3", "4", "5", "6", "7", "8", "9"}
UpperSeq == <<"A", "B", "C", "D", "E", "F", "G", "H", "I", "J", "K", "L", "M",
              "N", "O", "P", "Q", "R", "S", "T", "U", "V", "W", "X", "Y", "Z">>
LowerSeq == <<"a", "b", "c", "d", "e", "f", "g", "h", "i", "j", "k", "l", "m",
              "n", "o", "p", "q", "r", "s", "t", "u", "v", "w", "x", "y", "z">>
UpperLetters == {UpperSeq[i] : i \in 1..26}
LowerLetters == {LowerSeq[i] : i \in 1..26}
\* the line terminators that "." of a JavaScript regular expression skips
LineTerminators == {"\n", "\r"}

\* variant: only the length is tested
IsDigits_LengthOnly(s, n) == Len(s) = n

\* /^\d{n}$/.test(s)
IsDigits(s, n) == Len(s) = n /\ \A i \in 1..n : s[i] \in Digits

\* String.prototype.toLowerCase on one character
LowerChar(c) ==
  IF c \in UpperLetters
    THEN LowerSeq[CHOOSE i \in 1..26 : UpperSeq[i] = c]
    ELSE c

ToLowerCase(s) == [i \in 1..Len(s) |-> LowerChar(s[i])]

IsUsernameChar(c) == c \in LowerLetters \cup Digits

\* fullName.toLowerCase().replace(/[^a-z0-9]/g, '')
Sanitize(fullName) == SelectSeq(ToLowerCase(fullName), IsUsernameChar)

\* the lookahead (?=.*[class]) tried at position i of p
Lookahead(p, i, class) ==
  \E j \in i..Len(p) :
    /\ p[j] \in class
    /\ \A k \in i..(j - 1) : p[k] \notin LineTerminators

\* /(?=.*[a-z])(?=.*[A-Z])(?=.*\d)/.test(p)
StrengthRegex(p) ==
  \E i \in 1..(Len(p) + 1) :
    /\ Lookahead(p, i, LowerLetters)
    /\ Lookahead(p, i, UpperLetters)
    /\ Lookahead(p, i, Digits)

\* the negation of routes.ts:54
PasswordOK(p) == ~(Len(p) < 8 \/ ~StrengthRegex(p))

StartsWith(s, prefix) ==
  /\ Len(s) >= Len(prefix)
  /\ SubSeq(s, 1, Len(prefix)) = prefix

IsDigitChar(c) == c \in Digits

formatPhoneNumber(phone) ==
  LET digits == SelectSeq(phone, IsDigitChar) IN
  IF StartsWith(digits, <<"9", "1">>) /\ Len(digits) = 12 THEN <<"+">> \o digits
  ELSE IF Len(digits) = 10 THEN <<"+", "9", "1">> \o digits
  ELSE IF StartsWith(phone, <<"+">>) THEN phone
  ELSE <<"+", "9", "1">> \o digits

----------------------------------------------------------------------------
(* The values requests are made of *)

\* in the directory
A1 == <<"7", "3", "5", "2", "6", "9", "4", "6", "6", "6", "0", "2">>
\* twelve digits, unknown to the directory
A2 == <<"1", "2", "3", "4", "5", "6", "7", "8", "9", "0", "1", "2">>
\* not twelve digits
A3 == <<"1", "2", "3", "4", "5">>

Phone1 == <<"+", "9", "1", "8", "0", "8", "5", "7", "4", "5", "1", "5", "4">>

\* the AadhaarUser collection: aadhaar -> phone
directory == (A1 :> Phone1)

AadharInputs == {A1, A2, A3}

\* sanitized to the usernames "ab" and "cd"
Name1 == <<"A", " ", "b">>
Name2 == <<"C", "d">>

PwStrong == <<"P", "a", "s", "s", "w", "o", "r", "d", "1">>
PwWeak == <<"p", "a", "s", "s", "w", "o", "r", "d">>

StateName == <<"p", "b">>
DistrictName == <<"A", "s">>

\* the demo code, another well-formed code, a malformed one
Otp123456 == <<"1", "2", "3", "4", "5", "6">>
Otp654321 == <<"6", "5", "4", "3", "2", "1">>
OtpShort == <<"1", "2">>
OtpInputs == {Otp123456, Otp654321, OtpShort}

\* `session_${aadharNo}_${Date.now()}` and `login_session_${aadharNo}_${Date.now()}`:
\* aadharNo is twelve digits at both places, so the string is one-to-one
\* with (prefix, aadharNo, clock reading)
Token(prefix, aadharNo, t) == [prefix |-> prefix, aadharNo |-> aadharNo, t |-> t]

\* a token the server never issues
BogusToken == Token("bogus", A2, 0)
\* an absent or empty sessionToken
NoToken == Token("", <<>>, 0)

\* what the identity provider may answer to a call: success, or an error
\* with a message, or an error without one
ProviderError == "NotAuthorizedException"
NoMessage == ""
ProviderOutcomes == {"ok", ProviderError, NoMessage}

----------------------------------------------------------------------------
VARIABLES
  now,          \* Date.now()
  nextSweep,    \* when the setInterval callback is due
  configured,   \* USER_POOL_ID && CLIENT_ID
  otpSessions,  \* the Map: token -> session
  users,        \* the User collection
  inflight,     \* bag of the requests suspended at an await
  last,         \* the handler code that has just run, until it yields
  created,      \* history: every (token, session) given to otpSessions.set
  consumed,     \* history: (flow, token) of every confirm that succeeded
  swept,        \* history: tokens the sweep deleted
  translationCache,  \* the Map of the server: key -> CacheEntry
  cacheSets     \* history: key -> value and time of its latest cacheSet

vars == <<now, nextSweep, configured, otpSessions, users, inflight, last,
          created, consumed, swept, translationCache, cacheSets>>

----------------------------------------------------------------------------
(* What one run of handler code leaves behind: the request it served, the *)
(* result of the CognitoService method it had awaited (got, or NoGot), the *)
(* CognitoService method it entered (call, or NoCall) and the response it  *)
(* sent (res, or NoRes when it stopped at an await).                       *)

Res(status, success, message) ==
  [status |-> status, success |-> success, message |-> message]

\* variant: the lookup failure is answered as a missing resource
InvalidSession_NotFound == Res(404, FALSE, "Session not found")

InvalidSession == Res(400, FALSE, "Invalid or expired session")
InternalError == Res(500, FALSE, "Internal server error")

NoRes == [status |-> 0]
NoCall == [op |-> "none"]
NoGot == "none"
None == [req |-> [kind |-> "none"], res |-> NoRes, call |-> NoCall,
         got |-> NoGot]

\* real: the identity provider itself is called
Call(op, username, arg) ==
  [op |-> op, username |-> username, arg |-> arg, real |-> configured]

\* the code of the auth router never touches the server's translation cache
Ran(req, got, c, res) ==
  /\ last' = [req |-> req, res |-> res, call |-> c, got |-> got]
  /\ UNCHANGED <<translationCache, cacheSets>>

\* res.status(..).json(..) before any CognitoService method was entered
Respond(req, res) == Ran(req, NoGot, NoCall, res)
\* the handler resumes with the method's result and answers
RespondGot(req, got, res) == Ran(req, got, NoCall, res)
\* the handler enters a method, gets its result and answers, in one run
RespondAfter(req, c, got, res) == Ran(req, got, c, res)
\* the handler stops at the await of a CognitoService method
Await(req, c) == Ran(req, NoGot, c, NoRes)
\* the handler resumes with the method's result and stops at the await
\* of a database operation
AwaitDb(req, got) == Ran(req, got, NoCall, NoRes)

\* no handler code is running: the event loop picks the next callback
Idle == last = None

\* what the awaited provider call may turn out to be
Outcomes == IF configured THEN ProviderOutcomes ELSE {"ok"}

\* variant: the handler's own text replaces the provider's message
MessageOr_Generic(outcome, fallback) == fallback

\* error.message || fallback
MessageOr(outcome, fallback) == IF outcome = NoMessage THEN fallback ELSE outcome

Suspend(r) == inflight' = inflight (+) SetToBag({r})
Resume(r) == inflight' = inflight (-) SetToBag({r})
Move(r, r2) == inflight' = (inflight (-) SetToBag({r})) (+) SetToBag({r2})
CanSuspend == BagCardinality(inflight) < MaxInflight

Remove(map, keys) == [k \in (DOMAIN map) \ keys |-> map[k]]
Put(map, k, v) == [x \in (DOMAIN map) \cup {k} |-> IF x = k THEN v ELSE map[x]]

\* the session-creating code runs only within the explored horizon
CanCreate(sessionToken, session) ==
  /\ now <= MaxCreateTime
  /\ Cardinality(created \cup {<<sessionToken, session>>}) <= MaxStarts

----------------------------------------------------------------------------
Init ==
  /\ now = 0
  /\ nextSweep = SWEEP_INTERVAL
  /\ configured \in BOOLEAN
  /\ otpSessions = <<>>
  /\ users = {}
  /\ inflight = EmptyBag
  /\ last = None
  /\ created = {}
  /\ consumed = {}
  /\ swept = {}
  /\ translationCache = <<>>
  /\ cacheSets = <<>>

\* the code that ran returns to the event loop
Yield ==
  /\ ~Idle
  /\ last' = None
  /\ UNCHANGED <<now, nextSweep, configured, otpSessions, users, inflight,
                 created, consumed, swept, translationCache, cacheSets>>

----------------------------------------------------------------------------
(* The clock and the sweep timer *)

\* The interval timer fires when it is due: the clock does not pass
\* nextSweep before the sweep has run.
Tick ==
  /\ Idle
  /\ \E t \in {now + 1, nextSweep} :
       /\ t > now
       /\ t <= nextSweep
       /\ t <= ClockEnd
       /\ (t % SWEEP_INTERVAL) <= MaxJitter
       /\ now' = t
  /\ UNCHANGED <<nextSweep, configured, otpSessions, users, inflight, last,
                 created, consumed, swept, translationCache, cacheSets>>

\* variant: a session is dropped at the instant it reaches the TTL
Expired_AtTTL(session, t) == t - session.timestamp >= TTL

\* variant: a session is dropped one sweep interval after the TTL
Expired_Late(session, t) == t - session.timestamp > TTL + SWEEP_INTERVAL

Expired(session, t) == t - session.timestamp > TTL

ExpiredTokens == {k \in DOMAIN otpSessions : Expired(otpSessions[k], now)}

\* the setInterval callback of routes.ts:20
Sweep ==
  /\ Idle
  /\ now >= nextSweep
  /\ otpSessions' = Remove(otpSessions, ExpiredTokens)
  /\ swept' = swept \cup ExpiredTokens
  /\ nextSweep' = now + SWEEP_INTERVAL
  /\ UNCHANGED <<now, configured, users, inflight, last, created, consumed,
                 translationCache, cacheSets>>

----------------------------------------------------------------------------
(* The User collection *)

\* /^\+91[0-9]{10}$/
PhoneMatches(phone) ==
  /\ Len(phone) = 13
  /\ SubSeq(phone, 1, 3) = <<"+", "9", "1">>
  /\ \A i \in 4..13 : phone[i] \in Digits

\* UserSchema: the required paths are present and the patterns match
Validates(u) ==
  /\ u.cognitoId # <<>>
  /\ u.username # <<>>
  /\ IsDigits(u.aadharNo, 12)
  /\ PhoneMatches(u.phone)
  /\ u.fullName # <<>>
  /\ u.state # <<>>
  /\ u.district # <<>>

\* the unique indexes of UserSchema (email is sparse and never set)
Duplicates(u, coll) ==
  \E v \in coll :
    \/ v.cognitoId = u.cognitoId
    \/ v.username = u.username
    \/ v.aadharNo = u.aadharNo

\* variant: the collection has no unique index
SaveSucceeds_NoUniqueIndex(u, coll) == Validates(u)

\* newUser.save() resolves; otherwise it rejects and the handler's catch
\* answers 500
SaveSucceeds(u, coll) == Validates(u) /\ ~Duplicates(u, coll)

\* the document as the collection holds it: documents are told apart by
\* their _id
Stored(u, coll) == u @@ [id |-> Cardinality(coll) + 1]

\* User.findOne({ aadharNo })
FindUser(aadharNo) ==
  IF \E u \in users : u.aadharNo = aadharNo
    THEN {CHOOSE u \in users : u.aadharNo = aadharNo}
    ELSE {}

Summary(u) ==
  [id |-> u.id, username |-> u.username, fullName |-> u.fullName, aadharNo |-> u.aadharNo,
   state |-> u.state, district |-> u.district]

----------------------------------------------------------------------------
(* POST /create-user-send-otp *)

SignupReq(aadharNo, fullName, password, state, district) ==
  [kind |-> "create-user-send-otp", aadharNo |-> aadharNo,
   fullName |-> fullName, password |-> password, state |-> state,
   district |-> district]

\* variant: the User collection is not consulted
CreateUserRejection_NoExisting(req) ==
  IF \/ req.aadharNo = <<>>
     \/ req.fullName = <<>>
     \/ req.password = <<>>
     \/ req.state = <<>>
     \/ req.district = <<>>
    THEN Res(400, FALSE, "All fields are required")
  ELSE IF ~IsDigits(req.aadharNo, 12)
    THEN Res(400, FALSE, "Please provide a valid 12-digit Aadhar number")
  ELSE IF ~PasswordOK(req.password)
    THEN Res(400, FALSE,
      "Password must be at least 8 characters with uppercase, lowercase, and number")
  ELSE IF req.aadharNo \notin DOMAIN directory
    THEN Res(404, FALSE,
      "Aadhar number not found in our database. Please contact support.")
  ELSE NoRes

\* the rejection of routes.ts:38-77, or NoRes when the request passes
CreateUserRejection(req) ==
  IF \/ req.aadharNo = <<>>
     \/ req.fullName = <<>>
     \/ req.password = <<>>
     \/ req.state = <<>>
     \/ req.district = <<>>
    THEN Res(400, FALSE, "All fields are required")
  ELSE IF ~IsDigits(req.aadharNo, 12)
    THEN Res(400, FALSE, "Please provide a valid 12-digit Aadhar number")
  ELSE IF ~PasswordOK(req.password)
    THEN Res(400, FALSE,
      "Password must be at least 8 characters with uppercase, lowercase, and number")
  ELSE IF req.aadharNo \notin DOMAIN directory
    THEN Res(404, FALSE,
      "Aadhar number not found in our database. Please contact support.")
  ELSE IF FindUser(req.aadharNo) # {}
    THEN Res(400, FALSE, "User already exists with this Aadhar number")
  ELSE NoRes

\* const userData = {...} of routes.ts:80
UserData(req) ==
  [username |-> Sanitize(req.fullName),
   aadharNo |-> req.aadharNo,
   phone |-> directory[req.aadharNo],
   fullName |-> req.fullName,
   state |-> req.state,
   district |-> req.district,
   password |-> req.password]

\* The handler up to its call of CognitoService.createUserAndSendOTP.
CreateUserStart(req) ==
  /\ Idle
  /\ IF CreateUserRejection(req) # NoRes
       THEN /\ Respond(req, CreateUserRejection(req))
            /\ UNCHANGED inflight
       ELSE /\ CanSuspend
            /\ Suspend([kind |-> "create-user-send-otp", pc |-> "cognito",
                        req |-> req, userData |-> UserData(req)])
            /\ Await(req, Call("createUserAndSendOTP",
                               UserData(req).username, req.password))
  /\ UNCHANGED <<now, nextSweep, configured, otpSessions, users, created,
                 consumed, swept>>

\* a || b on strings
OrElse(a, b) == IF a # <<>> THEN a ELSE b

\* cognitoId of the result: `sim_${username}` when simulated, else username
SignupCognitoId(username) ==
  IF configured THEN username ELSE <<"s", "i", "m", "_">> \o username

\* the sessionToken of createUserAndSendOTP's result
SignupToken(aadharNo, t) == Token("session", aadharNo, t)

\* the value of otpSessions.set at routes.ts:101
SignupSession(r, t) ==
  [aadharNo |-> r.req.aadharNo,
   phone |-> r.userData.phone,
   fullName |-> r.req.fullName,
   password |-> r.req.password,
   state |-> r.req.state,
   district |-> r.req.district,
   cognitoId |-> OrElse(SignupCognitoId(r.userData.username), <<>>),
   timestamp |-> t]

\* variant: a failed createUserAndSendOTP is called again
CreateUserCognito_Retrying(r, outcome) ==
  /\ Idle
  /\ r.kind = "create-user-send-otp"
  /\ r.pc = "cognito"
  /\ outcome # "ok"
  /\ Ran(r.req, outcome,
         Call("createUserAndSendOTP", r.userData.username, r.req.password),
         NoRes)
  /\ UNCHANGED <<now, nextSweep, configured, otpSessions, users, inflight,
                 created, consumed, swept>>

\* createUserAndSendOTP returns and the handler runs to its end.
CreateUserCognito(r, outcome) ==
  /\ Idle
  /\ r.kind = "create-user-send-otp"
  /\ r.pc = "cognito"
  /\ Resume(r)
  /\ IF outcome # "ok"
       THEN /\ RespondGot(r.req, outcome, Res(400, FALSE,
                 MessageOr(outcome, "Failed to create user and send OTP")))
            /\ UNCHANGED <<otpSessions, created>>
       ELSE LET sessionToken == SignupToken(r.userData.aadharNo, now)
                session == SignupSession(r, now)
            IN /\ CanCreate(sessionToken, session)
               /\ otpSessions' = Put(otpSessions, sessionToken, session)
               /\ created' = created \cup {<<sessionToken, session>>}
               /\ RespondGot(r.req, outcome,
                    [status |-> 200, success |-> TRUE,
                     message |-> <<"User created and OTP sent to ",
                                   r.userData.phone,
                                   ". For demo: OTP is 123456">>,
                     sessionToken |-> sessionToken,
                     phone |-> r.userData.phone,
                     cognitoId |-> session.cognitoId])
  /\ UNCHANGED <<now, nextSweep, configured, users, consumed, swept>>

----------------------------------------------------------------------------
(* POST /verify-otp-signup *)

TokenReq(kind, sessionToken, otp) ==
  [kind |-> kind, sessionToken |-> sessionToken, otp |-> otp]

\* variant: the OTP format is left to the adapter
VerifySignupRejection_NoFormat(req) ==
  IF req.sessionToken = NoToken \/ req.otp = <<>>
    THEN Res(400, FALSE, "Session token and OTP are required")
  ELSE IF req.sessionToken \notin DOMAIN otpSessions
    THEN InvalidSession
  ELSE NoRes

\* variant: a token that was used up is reported as such
VerifySignupRejection_Used(req) ==
  IF req.sessionToken = NoToken \/ req.otp = <<>>
    THEN Res(400, FALSE, "Session token and OTP are required")
  ELSE IF ~IsDigits(req.otp, 6)
    THEN Res(400, FALSE, "OTP must be 6 digits")
  ELSE IF req.sessionToken \notin DOMAIN otpSessions
    THEN IF \E c \in consumed : c[2] = req.sessionToken
           THEN Res(400, FALSE, "Session already used")
           ELSE InvalidSession
  ELSE NoRes

\* the rejection of routes.ts:143-165, or NoRes when the request passes
VerifySignupRejection(req) ==
  IF req.sessionToken = NoToken \/ req.otp = <<>>
    THEN Res(400, FALSE, "Session token and OTP are required")
  ELSE IF ~IsDigits(req.otp, 6)
    THEN Res(400, FALSE, "OTP must be 6 digits")
  ELSE IF req.sessionToken \notin DOMAIN otpSessions
    THEN InvalidSession
  ELSE NoRes

\* The handler up to its call of CognitoService.verifyOTPAndSignup.
VerifySignupStart(req) ==
  /\ Idle
  /\ IF VerifySignupRejection(req) # NoRes
       THEN /\ Respond(req, VerifySignupRejection(req))
            /\ UNCHANGED inflight
       ELSE LET session == otpSessions[req.sessionToken]
                username == Sanitize(session.fullName)
            IN /\ CanSuspend
               /\ Suspend([kind |-> "verify-otp-signup", pc |-> "cognito",
                           req |-> req, session |-> session,
                           username |-> username])
               /\ Await(req, Call("verifyOTPAndSignup", username, req.otp))
  /\ UNCHANGED <<now, nextSweep, configured, otpSessions, users, created,
                 consumed, swept>>

\* cognitoId of verifyOTPAndSignup's result: userData.username when
\* simulated, username when the provider confirmed
ConfirmCognitoId(username) == username

\* new User({...}) of routes.ts:184
NewUser(session, username) ==
  [cognitoId |-> OrElse(ConfirmCognitoId(username), username),
   username |-> username,
   aadharNo |-> session.aadharNo,
   phone |-> session.phone,
   fullName |-> session.fullName,
   state |-> session.state,
   district |-> session.district,
   isVerified |-> TRUE]

\* variant: the handler does not look at confirm.success
ConfirmSuccess_Ignored(outcome) == TRUE

\* confirm.success of routes.ts:179
ConfirmSuccess(outcome) == outcome = "ok"

\* verifyOTPAndSignup returns; on success the record is saved.
VerifySignupCognito(r, outcome) ==
  /\ Idle
  /\ r.kind = "verify-otp-signup"
  /\ r.pc = "cognito"
  /\ IF ~ConfirmSuccess(outcome)
       THEN /\ Resume(r)
            /\ RespondGot(r.req, outcome, Res(400, FALSE,
                 MessageOr(outcome, "Failed to verify OTP and create user")))
            /\ UNCHANGED users
     ELSE LET newUser == NewUser(r.session, r.username) IN
          IF SaveSucceeds(newUser, users)
            THEN /\ users' = users \cup {Stored(newUser, users)}
                 /\ Move(r, [kind |-> "verify-otp-signup", pc |-> "saved",
                             req |-> r.req,
                             newUser |-> Stored(newUser, users)])
                 /\ AwaitDb(r.req, outcome)
            ELSE /\ Resume(r)
                 /\ RespondGot(r.req, outcome, InternalError)
                 /\ UNCHANGED users
  /\ UNCHANGED <<now, nextSweep, configured, otpSessions, created, consumed,
                 swept>>

\* variant: the handler deletes the session before it saves the record
VerifySignupSaveFails_Deleting(r, outcome) ==
  /\ Idle
  /\ r.kind = "verify-otp-signup"
  /\ r.pc = "cognito"
  /\ ConfirmSuccess(outcome)
  /\ Resume(r)
  /\ otpSessions' = Remove(otpSessions, {r.req.sessionToken})
  /\ RespondGot(r.req, outcome, InternalError)
  /\ UNCHANGED <<now, nextSweep, configured, users, created, consumed,
                 swept>>

\* verifyOTPAndSignup has succeeded and `await newUser.save()` rejects
\* because the database cannot be reached: the handler's catch answers 500
\* and otpSessions.delete is not reached
VerifySignupSaveFails(r, outcome) ==
  /\ Idle
  /\ r.kind = "verify-otp-signup"
  /\ r.pc = "cognito"
  /\ ConfirmSuccess(outcome)
  /\ Resume(r)
  /\ RespondGot(r.req, outcome, InternalError)
  /\ UNCHANGED <<now, nextSweep, configured, otpSessions, users, created,
                 consumed, swept>>

\* after `await newUser.save()`: the session is deleted and the answer sent
VerifySignupFinish(r) ==
  /\ Idle
  /\ r.kind = "verify-otp-signup"
  /\ r.pc = "saved"
  /\ Resume(r)
  /\ otpSessions' = Remove(otpSessions, {r.req.sessionToken})
  /\ consumed' = consumed \cup {<<r.kind, r.req.sessionToken>>}
  /\ Respond(r.req,
       [status |-> 200, success |-> TRUE,
        message |-> "Account verified and created successfully",
        user |-> Summary(r.newUser)])
  /\ UNCHANGED <<now, nextSweep, configured, users, created, swept>>

----------------------------------------------------------------------------
(* POST /resend-otp *)

\* variant: a successful resend restarts the session's 10 minutes
ResendOtp_Refreshing(req, outcome) ==
  /\ Idle
  /\ IF req.sessionToken = NoToken
       THEN /\ Respond(req, Res(400, FALSE, "Session token is required"))
            /\ UNCHANGED otpSessions
     ELSE IF req.sessionToken \notin DOMAIN otpSessions
       THEN /\ Respond(req, InvalidSession)
            /\ UNCHANGED otpSessions
     ELSE LET session == otpSessions[req.sessionToken]
              username == Sanitize(session.fullName)
              c == Call("resendOTPForUsername", username, <<>>)
          IN IF outcome # "ok"
               THEN /\ RespondAfter(req, c, outcome, Res(500, FALSE,
                         MessageOr(outcome, "Failed to resend OTP")))
                    /\ UNCHANGED otpSessions
               ELSE /\ RespondAfter(req, c, outcome,
                         Res(200, TRUE, "OTP resent successfully"))
                    /\ otpSessions' = Put(otpSessions, req.sessionToken,
                                          [session EXCEPT !.timestamp = now])
  /\ UNCHANGED <<now, nextSweep, configured, users, inflight, created,
                 consumed, swept>>

\* The whole handler: it writes nothing, so its one provider call and its
\* answer are taken together.
ResendOtp(req, outcome) ==
  /\ Idle
  /\ IF req.sessionToken = NoToken
       THEN Respond(req, Res(400, FALSE, "Session token is required"))
     ELSE IF req.sessionToken \notin DOMAIN otpSessions
       THEN Respond(req, InvalidSession)
     ELSE LET session == otpSessions[req.sessionToken]
              username == Sanitize(session.fullName)
              c == Call("resendOTPForUsername", username, <<>>)
          IN IF outcome # "ok"
               THEN RespondAfter(req, c, outcome, Res(500, FALSE,
                      MessageOr(outcome, "Failed to resend OTP")))
               ELSE RespondAfter(req, c, outcome,
                      Res(200, TRUE, "OTP resent successfully"))
  /\ UNCHANGED <<now, nextSweep, configured, otpSessions, users, inflight,
                 created, consumed, swept>>

----------------------------------------------------------------------------
(* POST /login-otp *)

\* the sessionToken of generateLoginOTP's result
LoginToken(aadharNo, t) == Token("login_session", aadharNo, t)

\* variant: the login session carries a credential of the account
LoginSession_WithPassword(req, user, t) ==
  [aadharNo |-> req.aadharNo,
   phone |-> directory[req.aadharNo],
   fullName |-> user.fullName,
   password |-> user.cognitoId,
   state |-> user.state,
   district |-> user.district,
   cognitoId |-> user.cognitoId,
   timestamp |-> t]

\* the value of otpSessions.set at routes.ts:315
LoginSession(req, user, t) ==
  [aadharNo |-> req.aadharNo,
   phone |-> directory[req.aadharNo],
   fullName |-> user.fullName,
   password |-> <<>>,
   state |-> user.state,
   district |-> user.district,
   cognitoId |-> user.cognitoId,
   timestamp |-> t]

\* The whole handler: its reads are of records that never change once
\* present, and its one write is its last step.
LoginOtp(req) ==
  /\ Idle
  /\ IF req.aadharNo = <<>> \/ ~IsDigits(req.aadharNo, 12)
       THEN /\ Respond(req, Res(400, FALSE,
                 "Please provide a valid 12-digit Aadhar number"))
            /\ UNCHANGED <<otpSessions, created>>
     ELSE IF FindUser(req.aadharNo) = {}
       THEN /\ Respond(req, Res(404, FALSE,
                 "User not found with this Aadhar number"))
            /\ UNCHANGED <<otpSessions, created>>
     ELSE IF req.aadharNo \notin DOMAIN directory
       THEN /\ Respond(req, Res(404, FALSE,
                 "Aadhar number not found in our database"))
            /\ UNCHANGED <<otpSessions, created>>
     ELSE LET user == CHOOSE u \in FindUser(req.aadharNo) : TRUE
              sessionToken == LoginToken(req.aadharNo, now)
              session == LoginSession(req, user, now)
          IN /\ CanCreate(sessionToken, session)
             /\ otpSessions' = Put(otpSessions, sessionToken, session)
             /\ created' = created \cup {<<sessionToken, session>>}
             /\ RespondAfter(req,
                  [op |-> "generateLoginOTP", username |-> req.aadharNo,
                   arg |-> session.phone, real |-> FALSE],
                  "ok",
                  [status |-> 200, success |-> TRUE,
                   message |-> <<"OTP sent successfully to ", session.phone,
                                 ". For demo: OTP is 123456">>,
                   sessionToken |-> sessionToken,
                   phone |-> session.phone])
  /\ UNCHANGED <<now, nextSweep, configured, users, inflight, consumed,
                 swept>>

----------------------------------------------------------------------------
(* POST /verify-login-otp *)

\* variant: the OTP is only compared with the expected code
VerifyLoginRejection_NoFormat(req) ==
  IF req.sessionToken = NoToken \/ req.otp = <<>>
    THEN Res(400, FALSE, "Session token and OTP are required")
  ELSE IF req.sessionToken \notin DOMAIN otpSessions
    THEN InvalidSession
  ELSE IF req.otp # Otp123456
    THEN Res(400, FALSE, "Invalid OTP. Please enter the correct OTP.")
  ELSE NoRes

\* variant: any six-digit code is accepted
VerifyLoginRejection_AnyCode(req) ==
  IF req.sessionToken = NoToken \/ req.otp = <<>>
    THEN Res(400, FALSE, "Session token and OTP are required")
  ELSE IF ~IsDigits(req.otp, 6)
    THEN Res(400, FALSE, "OTP must be 6 digits")
  ELSE IF req.sessionToken \notin DOMAIN otpSessions
    THEN InvalidSession
  ELSE NoRes

\* the rejection of routes.ts:356-386, or NoRes when the request passes
VerifyLoginRejection(req) ==
  IF req.sessionToken = NoToken \/ req.otp = <<>>
    THEN Res(400, FALSE, "Session token and OTP are required")
  ELSE IF ~IsDigits(req.otp, 6)
    THEN Res(400, FALSE, "OTP must be 6 digits")
  ELSE IF req.sessionToken \notin DOMAIN otpSessions
    THEN InvalidSession
  ELSE IF req.otp # Otp123456
    THEN Res(400, FALSE, "Invalid OTP. Please enter the correct OTP.")
  ELSE NoRes

\* The handler up to `await User.findOne`.
VerifyLoginStart(req) ==
  /\ Idle
  /\ IF VerifyLoginRejection(req) # NoRes
       THEN /\ Respond(req, VerifyLoginRejection(req))
            /\ UNCHANGED inflight
       ELSE /\ CanSuspend
            /\ Suspend([kind |-> "verify-login-otp", pc |-> "user",
                        req |-> req,
                        session |-> otpSessions[req.sessionToken]])
            /\ AwaitDb(req, NoGot)
  /\ UNCHANGED <<now, nextSweep, configured, otpSessions, users, created,
                 consumed, swept>>

\* variant: the session is deleted before the account is looked up
VerifyLoginUser_DeleteFirst(r) ==
  /\ Idle
  /\ r.kind = "verify-login-otp"
  /\ r.pc = "user"
  /\ Resume(r)
  /\ otpSessions' = Remove(otpSessions, {r.req.sessionToken})
  /\ IF FindUser(r.session.aadharNo) = {}
       THEN /\ Respond(r.req, Res(404, FALSE, "User not found"))
            /\ UNCHANGED consumed
       ELSE LET user == CHOOSE u \in FindUser(r.session.aadharNo) : TRUE IN
            /\ consumed' = consumed \cup {<<r.kind, r.req.sessionToken>>}
            /\ Respond(r.req,
                 [status |-> 200, success |-> TRUE,
                  message |-> "Login successful",
                  user |-> Summary(user) @@ [isVerified |-> user.isVerified]])
  /\ UNCHANGED <<now, nextSweep, configured, users, created, swept>>

\* User.findOne returns and the handler runs to its end.
VerifyLoginUser(r) ==
  /\ Idle
  /\ r.kind = "verify-login-otp"
  /\ r.pc = "user"
  /\ Resume(r)
  /\ IF FindUser(r.session.aadharNo) = {}
       THEN /\ Respond(r.req, Res(404, FALSE, "User not found"))
            /\ UNCHANGED <<otpSessions, consumed>>
       ELSE LET user == CHOOSE u \in FindUser(r.session.aadharNo) : TRUE IN
            /\ otpSessions' = Remove(otpSessions, {r.req.sessionToken})
            /\ consumed' = consumed \cup {<<r.kind, r.req.sessionToken>>}
            /\ Respond(r.req,
                 [status |-> 200, success |-> TRUE,
                  message |-> "Login successful",
                  user |-> Summary(user) @@ [isVerified |-> user.isVerified]])
  /\ UNCHANGED <<now, nextSweep, configured, users, created, swept>>

----------------------------------------------------------------------------
(* POST /login-password *)

LoginReq(kind, aadharNo, password) ==
  [kind |-> kind, aadharNo |-> aadharNo, password |-> password]

\* variant: the stored username whatever the directory holds
UsernameForLogin_Stored(aadharNo, user) == user.username

\* routes.ts:457-459
UsernameForLogin(aadharNo, user) ==
  IF aadharNo \in DOMAIN directory
    THEN OrElse(formatPhoneNumber(directory[aadharNo]), user.username)
    ELSE user.username

\* variant: a successful password login keeps the password in a session
LoginPassword_Storing(req, outcome) ==
  /\ Idle
  /\ req.aadharNo # <<>>
  /\ req.password # <<>>
  /\ IsDigits(req.aadharNo, 12)
  /\ FindUser(req.aadharNo) # {}
  /\ outcome = "ok"
  /\ LET user == CHOOSE u \in FindUser(req.aadharNo) : TRUE
         sessionToken == LoginToken(req.aadharNo, now)
         session == [LoginSession(req, user, now) EXCEPT !.password = req.password]
     IN /\ otpSessions' = Put(otpSessions, sessionToken, session)
        /\ RespondAfter(req,
             Call("verifyPassword", UsernameForLogin(req.aadharNo, user),
                  req.password),
             outcome,
             [status |-> 200, success |-> TRUE, message |-> "Login successful",
              user |-> Summary(user) @@ [isVerified |-> user.isVerified],
              tokens |-> configured])
  /\ UNCHANGED <<now, nextSweep, configured, users, inflight, created,
                 consumed, swept>>

\* The whole handler: it writes nothing.
LoginPassword(req, outcome) ==
  /\ Idle
  /\ IF req.aadharNo = <<>> \/ req.password = <<>>
       THEN Respond(req, Res(400, FALSE,
              "Aadhar number and password are required"))
     ELSE IF ~IsDigits(req.aadharNo, 12)
       THEN Respond(req, Res(400, FALSE,
              "Please provide a valid 12-digit Aadhar number"))
     ELSE IF FindUser(req.aadharNo) = {}
       THEN Respond(req, Res(404, FALSE,
              "User not found with this Aadhar number"))
     ELSE LET user == CHOOSE u \in FindUser(req.aadharNo) : TRUE
              c == Call("verifyPassword",
                        UsernameForLogin(req.aadharNo, user), req.password)
          IN IF outcome # "ok"
               THEN RespondAfter(req, c, outcome, Res(401, FALSE,
                      MessageOr(outcome, "Failed to verify password")))
               ELSE RespondAfter(req, c, outcome,
                      [status |-> 200, success |-> TRUE,
                       message |-> "Login successful",
                       user |-> Summary(user)
                                  @@ [isVerified |-> user.isVerified],
                       tokens |-> configured])
  /\ UNCHANGED <<now, nextSweep, configured, otpSessions, users, inflight,
                 created, consumed, swept>>

----------------------------------------------------------------------------
(* What clients send *)

SignupInputs ==
  {SignupReq(A1, Name1, PwStrong, StateName, DistrictName),
   SignupReq(A1, Name2, PwStrong, StateName, DistrictName),
   SignupReq(A1, Name1, PwWeak, StateName, DistrictName),
   SignupReq(A2, Name1, PwStrong, StateName, DistrictName),
   SignupReq(A3, Name1, PwStrong, StateName, DistrictName),
   SignupReq(A1, Name1, PwStrong, <<>>, DistrictName)}

\* tokens a client may present: those issued so far, one never issued, none
TokenInputs == {c[1] : c \in created} \cup {BogusToken, NoToken}

Suspended == BagToSet(inflight)

Requests ==
  \/ \E req \in SignupInputs : CreateUserStart(req)
  \/ \E t \in TokenInputs, o \in {Otp123456, OtpShort} :
       VerifySignupStart(TokenReq("verify-otp-signup", t, o))
  \/ \E t \in TokenInputs, o \in Outcomes :
       ResendOtp([kind |-> "resend-otp", sessionToken |-> t], o)
  \/ \E a \in AadharInputs :
       LoginOtp([kind |-> "login-otp", aadharNo |-> a])
  \/ \E t \in TokenInputs, o \in OtpInputs :
       VerifyLoginStart(TokenReq("verify-login-otp", t, o))
  \/ \E a \in {A1, A2}, o \in Outcomes :
       LoginPassword(LoginReq("login-password", a, PwStrong), o)

Continuations ==
  \/ \E r \in Suspended, o \in Outcomes : CreateUserCognito(r, o)
  \/ \E r \in Suspended, o \in Outcomes : VerifySignupCognito(r, o)
  \/ \E r \in Suspended, o \in Outcomes : VerifySignupSaveFails(r, o)
  \/ \E r \in Suspended : VerifySignupFinish(r)
  \/ \E r \in Suspended : VerifyLoginUser(r)

Next == Yield \/ Tick \/ Sweep \/ Requests \/ Continuations

Spec == Init /\ [][Next]_vars

\* the timer and the clock are never starved by request handling
FairSpec == Spec /\ SF_vars(Tick) /\ SF_vars(Sweep) /\ WF_vars(Yield)

----------------------------------------------------------------------------
(* CognitoService.getUserDetails: no route calls it.  It has no branch for *)
(* a missing configuration: it always sends AdminGetUserCommand.           *)

GetUserDetails(username, outcome) ==
  /\ Idle
  /\ Ran([kind |-> "getUserDetails", username |-> username], outcome,
         [op |-> "getUserDetails", username |-> username, arg |-> <<>>,
          real |-> TRUE],
         NoRes)
  /\ UNCHANGED <<now, nextSweep, configured, otpSessions, users, inflight,
                 created, consumed, swept>>

----------------------------------------------------------------------------
(* The handlers' input checks over a wider range of request bodies, at one *)
(* clock reading.  The database may already hold an account whose          *)
(* directory entry is missing: the two collections are filled              *)
(* independently.                                                          *)

\* eleven digits, thirteen digits, twelve characters with a letter
A11 == <<"1", "2", "3", "4", "5", "6", "7", "8", "9", "0", "1">>
A13 == <<"1", "2", "3", "4", "5", "6", "7", "8", "9", "0", "1", "2", "3">>
AAlpha == <<"1", "2", "3", "4", "5", "6", "7", "8", "9", "0", "1", "x">>
WideAadhar == AadharInputs \cup {A11, A13, AAlpha, <<>>}

\* the character U+0663 ARABIC-INDIC DIGIT THREE, which \d does not match
ArabicIndicThree == "U+0663"
\* seven digits, a letter, a trailing line feed, a non-ASCII digit
OtpLong == <<"1", "2", "3", "4", "5", "6", "7">>
OtpAlpha == <<"1", "2", "3", "4", "5", "a">>
OtpNewline == <<"1", "2", "3", "4", "5", "6", "\n">>
OtpUnicode == <<"1", "2", "3", "4", "5", ArabicIndicThree>>
WideOtps == OtpInputs \cup {OtpLong, OtpAlpha, OtpNewline, OtpUnicode, <<>>}

\* POST /api/auth/generate-otp, the entry point of ENVIRONMENT_SETUP.md and
\* of the test script: the router has no such route, so Express answers
\* 404 with a body that has no `success` and no `sessionToken`
GenerateOtp(req) ==
  /\ Idle
  /\ Respond(req, Res(404, FALSE, "Cannot POST /api/auth/generate-otp"))
  /\ UNCHANGED <<now, nextSweep, configured, otpSessions, users, inflight,
                 created, consumed, swept>>

WideSignupInputs ==
  SignupInputs
    \cup {SignupReq(a, Name1, PwStrong, StateName, DistrictName) :
            a \in WideAadhar}

\* an account of the User collection whose aadharNo the directory lacks
OrphanUser ==
  [cognitoId |-> <<"z", "z">>,
   username |-> <<"z", "z">>,
   aadharNo |-> A2,
   phone |-> <<"+", "9", "1", "8", "3", "4", "9", "3", "8", "3", "5", "7", "6">>,
   fullName |-> <<"Z", "z">>,
   state |-> StateName,
   district |-> DistrictName,
   isVerified |-> TRUE,
   id |-> 1]

InputInit ==
  /\ now = 0
  /\ nextSweep = SWEEP_INTERVAL
  /\ configured \in BOOLEAN
  /\ otpSessions = <<>>
  /\ users \in {{}, {OrphanUser}}
  /\ inflight = EmptyBag
  /\ last = None
  /\ created = {}
  /\ consumed = {}
  /\ swept = {}
  /\ translationCache = <<>>
  /\ cacheSets = <<>>

InputRequests ==
  \/ \E req \in WideSignupInputs : CreateUserStart(req)
  \/ \E t \in TokenInputs, o \in WideOtps :
       VerifySignupStart(TokenReq("verify-otp-signup", t, o))
  \/ \E t \in TokenInputs, o \in Outcomes :
       ResendOtp([kind |-> "resend-otp", sessionToken |-> t], o)
  \/ \E a \in WideAadhar :
       LoginOtp([kind |-> "login-otp", aadharNo |-> a])
  \/ \E t \in TokenInputs, o \in WideOtps :
       VerifyLoginStart(TokenReq("verify-login-otp", t, o))
  \/ \E a \in WideAadhar, pw \in {PwStrong, <<>>}, o \in Outcomes :
       LoginPassword(LoginReq("login-password", a, pw), o)
  \/ \E u \in {Sanitize(Name1)}, o \in ProviderOutcomes :
       GetUserDetails(u, o)
  \/ \E a \in {A1, A2} :
       GenerateOtp([kind |-> "generate-otp", aadharNo |-> a])

InputNext == Yield \/ InputRequests \/ Continuations

InputSpec == InputInit /\ [][InputNext]_vars

----------------------------------------------------------------------------
(* The password check of create-user-send-otp over every password of      *)
(* eight characters drawn from a lowercase letter, an uppercase letter, a  *)
(* digit and a line feed, and some shorter and longer ones; one signup at  *)
(* a time.                                                                 *)

PwAlphabet == {"a", "A", "1", "\n"}
\* seven characters with a lowercase letter, an uppercase letter and a digit
PwSeven == <<"P", "a", "s", "s", "w", "o", "1">>
Passwords ==
  {[i \in 1..8 |-> f[i]] : f \in [1..8 -> PwAlphabet]}
    \cup {PwStrong, PwWeak, PwSeven}

PasswordNext ==
  \/ Yield
  \/ /\ Idle
     /\ inflight = EmptyBag
     /\ created = {}
     /\ \E p \in Passwords :
          CreateUserStart(SignupReq(A1, Name1, p, StateName, DistrictName))
  \/ \E r \in Suspended, o \in Outcomes : CreateUserCognito(r, o)

PasswordSpec == Init /\ [][PasswordNext]_vars

----------------------------------------------------------------------------
(* The six routes at one clock reading when the provider call may also     *)
(* fail in transport: cognitoClient.send throws a network error, which the *)
(* adapter's catch turns into { success: false, message } like any other.  *)

TransportError == "connect ETIMEDOUT"

StatusOutcomes ==
  IF configured THEN ProviderOutcomes \cup {TransportError} ELSE {"ok"}

StatusRequests ==
  \/ \E req \in SignupInputs : CreateUserStart(req)
  \/ \E t \in TokenInputs, o \in OtpInputs :
       VerifySignupStart(TokenReq("verify-otp-signup", t, o))
  \/ \E t \in TokenInputs, o \in StatusOutcomes :
       ResendOtp([kind |-> "resend-otp", sessionToken |-> t], o)
  \/ \E a \in AadharInputs :
       LoginOtp([kind |-> "login-otp", aadharNo |-> a])
  \/ \E t \in TokenInputs, o \in OtpInputs :
       VerifyLoginStart(TokenReq("verify-login-otp", t, o))
  \/ \E a \in AadharInputs, p \in {PwStrong, <<>>}, o \in StatusOutcomes :
       LoginPassword(LoginReq("login-password", a, p), o)

StatusContinuations ==
  \/ \E r \in Suspended, o \in StatusOutcomes : CreateUserCognito(r, o)
  \/ \E r \in Suspended, o \in StatusOutcomes : VerifySignupCognito(r, o)
  \/ \E r \in Suspended : VerifySignupFinish(r)
  \/ \E r \in Suspended : VerifyLoginUser(r)

StatusNext == Yield \/ StatusRequests \/ StatusContinuations

StatusSpec == InputInit /\ [][StatusNext]_vars

----------------------------------------------------------------------------
(* CognitoService.formatPhoneNumber called on its own, over every string   *)
(* of up to three characters drawn from '+', '9', '1' and '-', and some    *)
(* longer numbers.                                                         *)

PhoneAlphabet == {"+", "9", "1", "-"}
MaxPhoneLen == 3
\* ten digits, and twelve digits with the country code but no '+'
PhoneLocal == <<"8", "0", "8", "5", "7", "4", "5", "1", "5", "4">>
PhoneNoPlus == <<"9", "1", "8", "0", "8", "5", "7", "4", "5", "1", "5", "4">>
\* a number of another country, written with separators
PhoneForeign == <<"+", "1", "-", "9", "1", "9", "-", "1", "9", "1", "-", "9", "9", "1", "1">>
\* eight digits: a landline number without its area code
PhoneShort == <<"2", "6", "5", "4", "1", "2", "3", "4">>
Phones ==
  UNION {{[i \in 1..n |-> f[i]] : f \in [1..n -> PhoneAlphabet]} :
           n \in 0..MaxPhoneLen}
    \cup {Phone1, PhoneLocal, PhoneNoPlus, PhoneForeign, PhoneShort}

FormatPhone(phone) ==
  /\ Idle
  /\ Ran([kind |-> "formatPhoneNumber", phone |-> phone], NoGot, NoCall,
         [result |-> formatPhoneNumber(phone)])
  /\ UNCHANGED <<now, nextSweep, configured, otpSessions, users, inflight,
                 created, consumed, swept>>

PhoneNext == Yield \/ \E p \in Phones : FormatPhone(p)

PhoneSpec == InputInit /\ [][PhoneNext]_vars

----------------------------------------------------------------------------
(* The translation cache of the server: cacheGet and cacheSet called on    *)
(* their own, with two keys and two values, while the clock moves between  *)
(* the instants around the deadlines of the entries.                       *)

TRANSLATION_TTL_MS == 1000 * 60 * 60

\* what a function without a return value, or `return undefined`, gives
Undefined == "undefined"

CacheKeys == {"hi:home", "ta:home"}
CacheValues == {"v1", "v2"}

\* { value, expiresAt: Date.now() + TRANSLATION_TTL_MS }
CacheEntry(value, t) == [value |-> value, expiresAt |-> t + TRANSLATION_TTL_MS]

\* variant: an entry is dropped at the instant of its deadline
CacheExpired_AtDeadline(entry, t) == t >= entry.expiresAt

\* Date.now() > entry.expiresAt
CacheExpired(entry, t) == t > entry.expiresAt

\* the value cacheGet(key) returns
CacheResult(key) ==
  IF key \notin DOMAIN translationCache THEN Undefined
  ELSE IF CacheExpired(translationCache[key], now) THEN Undefined
  ELSE translationCache[key].value

CacheGet(key) ==
  /\ Idle
  /\ translationCache' =
       IF /\ key \in DOMAIN translationCache
          /\ CacheExpired(translationCache[key], now)
         THEN Remove(translationCache, {key})
         ELSE translationCache
  /\ last' = [req |-> [kind |-> "cacheGet", key |-> key],
              res |-> [result |-> CacheResult(key)],
              call |-> NoCall, got |-> NoGot]
  /\ UNCHANGED <<now, nextSweep, configured, otpSessions, users, inflight,
                 created, consumed, swept, cacheSets>>

CacheSet(key, value) ==
  /\ Idle
  /\ translationCache' = Put(translationCache, key, CacheEntry(value, now))
  /\ cacheSets' = Put(cacheSets, key, [value |-> value, at |-> now])
  /\ last' = [req |-> [kind |-> "cacheSet", key |-> key, value |-> value],
              res |-> [result |-> Undefined],
              call |-> NoCall, got |-> NoGot]
  /\ UNCHANGED <<now, nextSweep, configured, otpSessions, users, inflight,
                 created, consumed, swept>>

\* the clock is read at the first instants and around the deadlines of the
\* entries set at them
MaxSetTime == 1
CacheInstants ==
  (0..MaxSetTime)
    \cup {s + TRANSLATION_TTL_MS + d : s \in 0..MaxSetTime, d \in {-1, 0, 1}}

\* Date.now() moves on between two callbacks; no session is stored, so
\* the sweep timer has nothing to do
CacheTick ==
  /\ Idle
  /\ \E t \in CacheInstants : t > now /\ now' = t
  /\ UNCHANGED <<nextSweep, configured, otpSessions, users, inflight, last,
                 created, consumed, swept, translationCache, cacheSets>>

CacheNext ==
  \/ Yield
  \/ CacheTick
  \/ \E k \in CacheKeys : CacheGet(k)
  \/ \E k \in CacheKeys, v \in CacheValues : CacheSet(k, v)

CacheSpec == Init /\ [][CacheNext]_vars

----------------------------------------------------------------------------
(* Vocabulary of the properties *)

\* tokens given out so far
Issued == {c[1] : c \in created}
\* tokens for which verify-otp-signup has answered success
Confirmed == {c[2] : c \in {d \in consumed : d[1] = "verify-otp-signup"}}
\* tokens deleted by either confirm flow
Consumed == {c[2] : c \in consumed}

\* this step runs handler code (the state before it is always idle)
Runs == last' # None
\* this step runs the first code of a request of this kind: it answers at
\* once or suspends a new request
Starts(kind) ==
  /\ Runs
  /\ last'.req.kind = kind
  /\ BagCardinality(inflight') >= BagCardinality(inflight)
  /\ last'.got = NoGot \/ last'.call # NoCall
\* this step answers the request
Answers == Runs /\ last'.res # NoRes

WellFormed(req) == IsDigits(req.otp, 6)

----------------------------------------------------------------------------
(* C1: once verify-otp-signup has succeeded for a token, every later      *)
(* verify-otp-signup request with that token and a six-digit code is      *)
(* answered 400 "Invalid or expired session" and the User collection is   *)
(* left as it was.                                                         *)
C1_NonReplay ==
  [][(/\ Starts("verify-otp-signup")
      /\ last'.req.sessionToken \in Confirmed
      /\ WellFormed(last'.req))
       => (last'.res = InvalidSession /\ users' = users)]_vars

(* C2: the User collection never holds two records with the same aadharNo. *)
C2_OneRecordPerAccount ==
  \A u, v \in users : u.aadharNo = v.aadharNo => u = v

\* a second session for an account that already has its record was
\* confirmed by the provider, and the save was refused
C2_Witness ==
  /\ last.req.kind = "verify-otp-signup"
  /\ last.got = "ok"
  /\ last.res = InternalError
  /\ \E u \in users : \E c \in created :
       c[1] = last.req.sessionToken /\ c[2].aadharNo = u.aadharNo

(* C3: a step adds a record to the User collection only when it is the    *)
(* verify-otp-signup handler resuming from a verifyOTPAndSignup that       *)
(* returned success for a session it had read; the record is that          *)
(* session's account, and nothing is ever removed.                         *)
C3_InsertOnlyAfterConfirm ==
  [][users' # users
       => /\ last'.req.kind = "verify-otp-signup"
          /\ last'.got = "ok"
          /\ \E r \in BagToSet(inflight) :
               /\ r.kind = "verify-otp-signup"
               /\ r.pc = "cognito"
               /\ r.req = last'.req
               /\ \E u \in users' \ users :
                    /\ users' = users \cup {u}
                    /\ u.aadharNo = r.session.aadharNo]_vars

C3_Witness ==
  /\ users # {}
  /\ last.req.kind = "verify-otp-signup"
  /\ last.got = "ok"
  /\ last.res = NoRes

(* C4: no start request is answered with a token that an earlier start    *)
(* request was answered with.                                              *)
C4_TokensNeverReused ==
  [][(Answers /\ last'.req.kind \in {"create-user-send-otp", "login-otp"}
        /\ last'.res.success)
       => last'.res.sessionToken \notin Issued]_vars

\* the request's token has a session in the store that is older than TTL
ExpiredInStore(req) ==
  /\ req.sessionToken \in DOMAIN otpSessions
  /\ now - otpSessions[req.sessionToken].timestamp > TTL

Rejected ==
  /\ last'.res = Res(400, FALSE, "Invalid or expired session")
  /\ last'.call = NoCall
  /\ users' = users
  /\ otpSessions' = otpSessions
  /\ consumed' = consumed

(* C5 as claimed: a verify-otp-signup, resend-otp or verify-login-otp     *)
(* request whose session is older than 10 minutes is answered "Invalid or *)
(* expired session", with no adapter call, no record and no login.         *)
C5_ExpiredRejected ==
  [][\A kind \in {"verify-otp-signup", "resend-otp", "verify-login-otp"} :
       (/\ Starts(kind)
        /\ kind # "resend-otp" => WellFormed(last'.req)
        /\ ExpiredInStore(last'.req))
         => Rejected]_vars

(* C5 as amended: such a request is rejected in that way whenever the     *)
(* sweep has removed the token's session; a session older than 10 minutes *)
(* that no sweep has removed yet is still served.                          *)
C5_SweptRejected ==
  [][\A kind \in {"verify-otp-signup", "resend-otp", "verify-login-otp"} :
       (/\ Starts(kind)
        /\ kind # "resend-otp" => WellFormed(last'.req)
        /\ last'.req.sessionToken \in swept)
         => Rejected]_vars

\* a well-formed confirm for a session the sweep has removed was rejected
C5_Witness ==
  /\ last.req.kind = "verify-otp-signup"
  /\ WellFormed(last.req)
  /\ last.req.sessionToken \in swept
  /\ last.res.message = "Invalid or expired session"

(* C6: every session given to the store at time c and not consumed by a   *)
(* successful confirm is what a lookup of its token returns while          *)
(* now - c <= 10 minutes, and the lookup finds nothing when                *)
(* now - c > 10 minutes and a sweep has run since the session expired.     *)
C6_LookupUntilExpiry ==
  \A c \in created :
    c[1] \notin Consumed =>
      /\ now - c[2].timestamp <= TTL
           => (c[1] \in DOMAIN otpSessions /\ otpSessions[c[1]] = c[2])
      /\ (nextSweep - SWEEP_INTERVAL) - c[2].timestamp > TTL
           => c[1] \notin DOMAIN otpSessions

(* C7: the sweep deletes only sessions older than 10 minutes and leaves   *)
(* every other session in the store as it was.                             *)
C7_SweepOnlyExpired ==
  [][nextSweep' # nextSweep
       => \A k \in DOMAIN otpSessions :
            /\ k \notin DOMAIN otpSessions'
                 => now - otpSessions[k].timestamp > TTL
            /\ now - otpSessions[k].timestamp <= TTL
                 => (k \in DOMAIN otpSessions'
                     /\ otpSessions'[k] = otpSessions[k])]_vars

\* a sweep has just run over a session that is exactly 10 minutes old, and
\* the session is still in the store as it was created
C7_Witness ==
  /\ nextSweep = now + SWEEP_INTERVAL
  /\ \E c \in created :
       /\ now - c[2].timestamp = TTL
       /\ c[1] \in DOMAIN otpSessions
       /\ otpSessions[c[1]] = c[2]

(* C8: with the sweep firing every 5 minutes, a session in the store is   *)
(* never older than 10 minutes plus one sweep interval, and the store is   *)
(* eventually empty for good once requests stop creating sessions.         *)
C8_GoneAfterOneInterval ==
  /\ [](\A k \in DOMAIN otpSessions :
          now - otpSessions[k].timestamp <= TTL + SWEEP_INTERVAL)
  /\ <>[](DOMAIN otpSessions = {})

\* a session is in the store at the last instant the bound allows
C8_Witness ==
  \E k \in DOMAIN otpSessions :
    now - otpSessions[k].timestamp = TTL + SWEEP_INTERVAL

(* C9: resend-otp leaves the store and the User collection as they were,  *)
(* whatever the provider answers, and a verify-otp-signup with the same    *)
(* token is served after it as it was before it.                           *)
C9_ResendFrame ==
  [][Starts("resend-otp")
       => /\ otpSessions' = otpSessions
          /\ users' = users
          /\ \A t \in TokenInputs, o \in OtpInputs :
               t = last'.req.sessionToken
                 => VerifySignupRejection(TokenReq("verify-otp-signup", t, o))'
                    = VerifySignupRejection(TokenReq("verify-otp-signup", t, o))]_vars

\* the provider refused a resend for a session that is still in the store
C9_Witness ==
  /\ last.req.kind = "resend-otp"
  /\ last.got = ProviderError
  /\ last.res.status = 500
  /\ last.req.sessionToken \in DOMAIN otpSessions
  /\ <<last.req.sessionToken, otpSessions[last.req.sessionToken]>> \in created

(* C10: when verifyOTPAndSignup fails, verify-otp-signup answers 400 with *)
(* the provider's message (the adapter's own text when the error has       *)
(* none), adds no record, and leaves the store as it was, so that the same *)
(* request is served again as before.                                      *)
C10_ConfirmFailureKeepsSession ==
  [][(/\ Runs
      /\ last'.req.kind = "verify-otp-signup"
      /\ last'.got \notin {NoGot, "ok"})
       => /\ last'.res.status = 400
          /\ last'.res.success = FALSE
          /\ last'.got # NoMessage => last'.res.message = last'.got
          /\ last'.got = NoMessage
               => last'.res.message = "Failed to verify OTP and create user"
          /\ users' = users
          /\ otpSessions' = otpSessions
          /\ \A t \in TokenInputs, o \in OtpInputs :
               last'.req = TokenReq("verify-otp-signup", t, o)
                 => VerifySignupRejection(TokenReq("verify-otp-signup", t, o))'
                    = VerifySignupRejection(TokenReq("verify-otp-signup", t, o))]_vars

C10_Witness ==
  /\ last.req.kind = "verify-otp-signup"
  /\ last.got = ProviderError
  /\ last.res.message = ProviderError
  /\ last.req.sessionToken \in DOMAIN otpSessions

(* C11: a verify-otp-signup or verify-login-otp request whose code is not  *)
(* exactly six digits is answered 400 with a validation message, without   *)
(* an adapter call, and leaves the session store, the User collection and  *)
(* the suspended requests as they were.                                    *)
C11_MalformedCodeRejected ==
  [][\A kind \in {"verify-otp-signup", "verify-login-otp"} :
       (/\ Starts(kind)
        /\ \/ Len(last'.req.otp) # 6
           \/ \E i \in 1..Len(last'.req.otp) : last'.req.otp[i] \notin Digits)
         => /\ last'.res.status = 400
            /\ last'.res.success = FALSE
            /\ last'.res.message \in {"OTP must be 6 digits",
                                      "Session token and OTP are required"}
            /\ last'.call = NoCall
            /\ otpSessions' = otpSessions
            /\ users' = users
            /\ inflight' = inflight]_vars

\* a confirm with the code "12" for a session in the store was refused
C11_Witness ==
  /\ last.req.kind = "verify-otp-signup"
  /\ last.req.otp = OtpShort
  /\ last.req.sessionToken \in DOMAIN otpSessions
  /\ last.res.message = "OTP must be 6 digits"

(* C12: a well-formed verify-otp-signup, resend-otp or verify-login-otp    *)
(* request whose token is not in the store is answered 400 "Invalid or     *)
(* expired session" and nothing else, whether the token was never issued,  *)
(* was consumed by a confirm or was removed by the sweep.                  *)
C12_OneNotFoundAnswer ==
  [][\A kind \in {"verify-otp-signup", "resend-otp", "verify-login-otp"} :
       (/\ Starts(kind)
        /\ last'.req.sessionToken # NoToken
        /\ kind # "resend-otp" => WellFormed(last'.req)
        /\ last'.req.sessionToken \notin DOMAIN otpSessions)
         => /\ last'.res = Res(400, FALSE, "Invalid or expired session")
            /\ last'.call = NoCall
            /\ last'.got = NoGot]_vars

\* a token consumed by a confirm and a token removed by the sweep are both
\* out of the store, and a request for the consumed one was just refused
C12_Witness ==
  /\ last.req.kind \in {"verify-otp-signup", "resend-otp", "verify-login-otp"}
  /\ last.req.sessionToken \in Consumed \ DOMAIN otpSessions
  /\ swept \ DOMAIN otpSessions # {}
  /\ last.res.message = "Invalid or expired session"

(* C13: verifyOTPAndSignup is entered only with a code of exactly six      *)
(* ASCII digits.                                                           *)
C13_ConfirmCodeSixDigits ==
  [][(Runs /\ last'.call.op = "verifyOTPAndSignup")
       => /\ Len(last'.call.arg) = 6
          /\ \A i \in 1..6 : last'.call.arg[i] \in Digits]_vars

\* the adapter was entered with the code of a request, and a request with
\* a non-ASCII digit for the same session is refused
C13_Witness ==
  /\ last.call.op = "verifyOTPAndSignup"
  /\ last.call.arg = Otp123456
  /\ VerifySignupRejection(
       TokenReq("verify-otp-signup", last.req.sessionToken, OtpUnicode))
       = Res(400, FALSE, "OTP must be 6 digits")

(* C14: while the configuration is missing, every adapter method that is   *)
(* entered makes no provider call and returns success.                     *)
C14_DegradedAllSimulated ==
  [][(~configured /\ Runs)
       => /\ last'.call # NoCall => ~last'.call.real
          /\ last'.got # NoGot => last'.got = "ok"]_vars

(* C15: a create-user-send-otp request for an aadharNo the directory lacks *)
(* or the User collection already has is refused at once, with no adapter  *)
(* call and no session; when createUserAndSendOTP fails the answer is 400  *)
(* with the provider's message (the adapter's own text when the error has  *)
(* none) and no session; the handler gives the store a session only when   *)
(* createUserAndSendOTP has returned success.                              *)
C15_SessionOnlyAfterCreate ==
  [][(Runs /\ last'.req.kind = "create-user-send-otp")
       => /\ (/\ Starts("create-user-send-otp")
              /\ \/ last'.req.aadharNo \notin DOMAIN directory
                 \/ \E u \in users : u.aadharNo = last'.req.aadharNo)
               => /\ last'.res # NoRes
                  /\ last'.res.success = FALSE
                  /\ last'.res.status \in {400, 404}
                  /\ last'.call = NoCall
                  /\ inflight' = inflight
                  /\ otpSessions' = otpSessions
          /\ last'.got \notin {NoGot, "ok"}
               => /\ last'.res.status = 400
                  /\ last'.res.success = FALSE
                  /\ last'.got # NoMessage => last'.res.message = last'.got
                  /\ last'.got = NoMessage
                       => last'.res.message = "Failed to create user and send OTP"
                  /\ otpSessions' = otpSessions
          /\ otpSessions' # otpSessions
               => /\ last'.got = "ok"
                  /\ last'.res.success = TRUE
                  /\ last'.res.sessionToken \in DOMAIN otpSessions']_vars

\* an account exists, a signup for its aadharNo was just refused, and the
\* store holds no session for it
C15_Witness ==
  /\ last.req.kind = "create-user-send-otp"
  /\ \E u \in users : u.aadharNo = last.req.aadharNo
  /\ last.res.message = "User already exists with this Aadhar number"
  /\ otpSessions = <<>>

(* C16: a create-user-send-otp request whose aadharNo is not exactly       *)
(* twelve digits is answered 400 with a validation message, with no        *)
(* adapter call and no session; with twelve digits and the other fields    *)
(* valid the answer is decided by the directory: 404 when it lacks the     *)
(* aadharNo, else the handler goes on to the User collection.              *)
C16_AadharTwelveDigits ==
  [][Starts("create-user-send-otp")
       => /\ (\/ Len(last'.req.aadharNo) # 12
              \/ \E i \in 1..Len(last'.req.aadharNo) :
                   last'.req.aadharNo[i] \notin Digits)
               => /\ last'.res.status = 400
                  /\ last'.res.success = FALSE
                  /\ last'.res.message
                       \in {"Please provide a valid 12-digit Aadhar number",
                            "All fields are required"}
                  /\ last'.call = NoCall
                  /\ inflight' = inflight
                  /\ otpSessions' = otpSessions
          /\ (/\ Len(last'.req.aadharNo) = 12
              /\ \A i \in 1..12 : last'.req.aadharNo[i] \in Digits
              /\ last'.req.password = PwStrong
              /\ last'.req.fullName # <<>>
              /\ last'.req.state # <<>>
              /\ last'.req.district # <<>>)
               => IF last'.req.aadharNo \notin DOMAIN directory
                    THEN last'.res = Res(404, FALSE,
                           "Aadhar number not found in our database. Please contact support.")
                    ELSE \/ last'.call.op = "createUserAndSendOTP"
                         \/ last'.res = Res(400, FALSE,
                              "User already exists with this Aadhar number")]_vars

\* "123456789012" reached the directory lookup, which did not find it
C16_Witness ==
  /\ last.req.kind = "create-user-send-otp"
  /\ last.req.aadharNo = A2
  /\ last.res.status = 404

(* C17: create-user-send-otp refuses a password with the password message  *)
(* exactly when the password has fewer than 8 characters or lacks a        *)
(* lowercase letter, an uppercase letter or a digit.                       *)
C17_PasswordPolicy ==
  [][Starts("create-user-send-otp")
       => LET p == last'.req.password
              refused ==
                /\ last'.res # NoRes
                /\ last'.res.message =
                     "Password must be at least 8 characters with uppercase, lowercase, and number"
          IN refused <=>
               ~(/\ Len(p) >= 8
                 /\ \E i \in 1..Len(p) : p[i] \in LowerLetters
                 /\ \E i \in 1..Len(p) : p[i] \in UpperLetters
                 /\ \E i \in 1..Len(p) : p[i] \in Digits)]_vars

(* C18: login-otp answers success and stores a session only when the User  *)
(* collection and the directory both have the aadharNo, and the session it *)
(* stores has the empty password; a session with a non-empty password is   *)
(* put into the store by create-user-send-otp only, so every stored        *)
(* session with a non-empty password has a signup token.                   *)
C18_LoginSessionOrigin ==
  /\ [][(Runs /\ last'.req.kind = "login-otp")
          => /\ (otpSessions' # otpSessions \/ last'.res.success)
                  => /\ \E u \in users : u.aadharNo = last'.req.aadharNo
                     /\ last'.req.aadharNo \in DOMAIN directory
                     /\ last'.res.success
                     /\ last'.res.sessionToken \in DOMAIN otpSessions'
                     /\ otpSessions'[last'.res.sessionToken].password = <<>>
                     /\ \A t \in DOMAIN otpSessions :
                          /\ t \in DOMAIN otpSessions'
                          /\ t # last'.res.sessionToken
                               => otpSessions'[t] = otpSessions[t]
             /\ (\/ \A u \in users : u.aadharNo # last'.req.aadharNo
                 \/ last'.req.aadharNo \notin DOMAIN directory)
                  => /\ otpSessions' = otpSessions
                     /\ last'.res.success = FALSE]_vars
  /\ [][\A t \in DOMAIN otpSessions' :
          (/\ otpSessions'[t].password # <<>>
           /\ t \in DOMAIN otpSessions => otpSessions[t] # otpSessions'[t])
            => last'.req.kind = "create-user-send-otp"]_vars
  /\ [](\A t \in DOMAIN otpSessions :
          otpSessions[t].password # <<>> => t.prefix = "session")

\* login-otp has just stored a session for an account of the User
\* collection and the directory
C18_Witness ==
  /\ last.req.kind = "login-otp"
  /\ last.res.success
  /\ \E u \in users : u.aadharNo = last.req.aadharNo
  /\ otpSessions[last.res.sessionToken].password = <<>>
  /\ otpSessions[last.res.sessionToken].phone = directory[last.req.aadharNo]

(* C19: verify-login-otp answers success only when the otp is '123456'; a  *)
(* success answer carries the summary of the account of the session's      *)
(* aadharNo and leaves the store without the session; a request for a      *)
(* stored session with any other otp is answered 400 at once and the store *)
(* keeps the session; a request that passed the checks with the token of a *)
(* login session ends in success.                                          *)
C19_LoginConfirmCode ==
  [][(Runs /\ last'.req.kind = "verify-login-otp")
       => /\ (Answers /\ last'.res.success)
               => /\ last'.req.otp = Otp123456
                  /\ last'.req.sessionToken \notin DOMAIN otpSessions'
                  /\ <<"verify-login-otp", last'.req.sessionToken>> \in consumed'
                  /\ \E c \in created, u \in users :
                       /\ c[1] = last'.req.sessionToken
                       /\ u.aadharNo = c[2].aadharNo
                       /\ last'.res.user
                            = [id |-> u.id, username |-> u.username,
                               fullName |-> u.fullName, aadharNo |-> u.aadharNo,
                               state |-> u.state, district |-> u.district,
                               isVerified |-> u.isVerified]
          /\ (/\ Starts("verify-login-otp")
              /\ last'.req.sessionToken \in DOMAIN otpSessions
              /\ last'.req.otp # Otp123456)
               => /\ last'.res # NoRes
                  /\ last'.res.status = 400
                  /\ last'.res.success = FALSE
                  /\ otpSessions' = otpSessions
                  /\ inflight' = inflight
          /\ (/\ Starts("verify-login-otp")
              /\ last'.req.sessionToken \in DOMAIN otpSessions
              /\ last'.req.otp = Otp123456)
               => last'.res = NoRes
          /\ (/\ ~Starts("verify-login-otp")
              /\ last'.req.sessionToken.prefix = "login_session")
               => last'.res.success]_vars

\* a login has just been confirmed: the token was issued by login-otp and
\* the store no longer holds it
C19_Witness ==
  /\ last.req.kind = "verify-login-otp"
  /\ last.res # NoRes
  /\ last.res.success
  /\ last.req.sessionToken.prefix = "login_session"
  /\ last.req.sessionToken \in Issued
  /\ last.req.sessionToken \notin DOMAIN otpSessions

(* C20: login-password calls verifyPassword with the formatted phone of    *)
(* the directory entry as username when the directory has the aadharNo,    *)
(* and with the username stored in the User document when it has not.      *)
C20_LoginUsername ==
  [][(Runs /\ last'.req.kind = "login-password" /\ last'.call # NoCall)
       => /\ last'.call.op = "verifyPassword"
          /\ last'.call.arg = last'.req.password
          /\ \E u \in users :
               /\ u.aadharNo = last'.req.aadharNo
               /\ IF last'.req.aadharNo \in DOMAIN directory
                    THEN /\ last'.call.username
                             = formatPhoneNumber(directory[last'.req.aadharNo])
                         /\ last'.call.username # u.username
                    ELSE last'.call.username = u.username]_vars

\* verifyPassword was called with the phone of the directory entry, which
\* is not the account's stored username
C20_Witness ==
  /\ last.req.kind = "login-password"
  /\ last.call # NoCall
  /\ last.req.aadharNo \in DOMAIN directory
  /\ last.call.username = Phone1
  /\ \E u \in users : u.aadharNo = last.req.aadharNo /\ u.username # Phone1

(* C21: a login-password request, whatever its answer, is answered in one  *)
(* run of the handler and leaves the session store as it was: no session   *)
(* is created, changed or deleted.                                         *)
C21_LoginPasswordFrame ==
  [][(Runs /\ last'.req.kind = "login-password")
       => /\ otpSessions' = otpSessions
          /\ created' = created
          /\ consumed' = consumed
          /\ swept' = swept
          /\ users' = users
          /\ inflight' = inflight
          /\ last'.res # NoRes]_vars

\* a password login has just succeeded while the store holds a session
C21_Witness ==
  /\ last.req.kind = "login-password"
  /\ last.res # NoRes
  /\ last.res.success
  /\ last.call.op = "verifyPassword"
  /\ otpSessions # <<>>

(* C22: every refusal has status 400, 401, 404 or 500; a refusal made      *)
(* before any provider call for a missing or malformed field, an unknown   *)
(* token or an account that already exists has 400; one for an aadharNo    *)
(* the directory or the User collection lacks has 404; a password the      *)
(* provider rejects has 401; a provider call that failed in transport has  *)
(* 500.                                                                    *)
C22_StatusMapping ==
  [][(Answers /\ ~last'.res.success)
       => /\ last'.res.status \in {400, 401, 404, 500}
          /\ last'.got = TransportError => last'.res.status = 500
          /\ (last'.got = ProviderError /\ last'.req.kind = "login-password")
               => last'.res.status = 401
          /\ last'.res.message
               \in {"Aadhar number not found in our database",
                    "Aadhar number not found in our database. Please contact support.",
                    "User not found with this Aadhar number",
                    "User not found"}
               => last'.res.status = 404
          /\ (last'.got = NoGot /\ last'.call = NoCall
                /\ last'.res.status # 404)
               => last'.res.status = 400]_vars

(* C23: when verifyOTPAndSignup has succeeded and the record is not saved, *)
(* verify-otp-signup answers 500 without success, adds no record, and      *)
(* neither deletes nor changes any session: the session is in the store    *)
(* afterwards exactly if it was there before this step.                    *)
C23_InsertFailureFrame ==
  [][(/\ Runs
      /\ last'.req.kind = "verify-otp-signup"
      /\ last'.got = "ok"
      /\ users' = users)
       => /\ last'.res = Res(500, FALSE, "Internal server error")
          /\ otpSessions' = otpSessions
          /\ consumed' = consumed
          /\ BagCardinality(inflight') < BagCardinality(inflight)]_vars

\* the save has just failed with no record for the aadharNo, and the store
\* still holds the session
C23_Witness ==
  /\ last.req.kind = "verify-otp-signup"
  /\ last.got = "ok"
  /\ last.res = InternalError
  /\ last.req.sessionToken \in DOMAIN otpSessions
  /\ \A u \in users :
       u.aadharNo # otpSessions[last.req.sessionToken].aadharNo

(* C23 as stated: when verifyOTPAndSignup has succeeded and the record is  *)
(* not saved, the answer is an error and the store still holds the session *)
(* with the contents the request read.                                     *)
C23_SessionStillStored ==
  [][(/\ Runs
      /\ last'.req.kind = "verify-otp-signup"
      /\ last'.got = "ok"
      /\ users' = users)
       => /\ last'.res.success = FALSE
          /\ last'.req.sessionToken \in DOMAIN otpSessions'
          /\ \E r \in BagToSet(inflight) :
               /\ r.kind = "verify-otp-signup"
               /\ r.pc = "cognito"
               /\ r.req = last'.req
               /\ otpSessions'[last'.req.sessionToken] = r.session]_vars

(* C24: a handler enters a CognitoService method only in the first run of  *)
(* a request: either the request is new and is suspended at that call, or  *)
(* the handler gets the result and answers in the same run; a run that     *)
(* resumes with a failed call answers the request and enters no method.    *)
C24_NoRetry ==
  [][Runs
       => /\ last'.call # NoCall
               => \/ /\ last'.res = NoRes
                     /\ last'.got = NoGot
                     /\ BagCardinality(inflight')
                          = BagCardinality(inflight) + 1
                  \/ /\ last'.res # NoRes
                     /\ inflight' = inflight
          /\ BagCardinality(inflight') <= BagCardinality(inflight) + 1
          /\ BagCardinality(inflight') <= BagCardinality(inflight)
               /\ inflight' # inflight
               => last'.call = NoCall
          /\ last'.got \notin {NoGot, "ok"}
               => /\ last'.res # NoRes
                  /\ last'.res.success = FALSE
                  /\ BagCardinality(inflight') <= BagCardinality(inflight)]_vars

\* createUserAndSendOTP failed in transport and the request was answered
\* without another call
C24_Witness ==
  /\ last.req.kind = "create-user-send-otp"
  /\ last.got = TransportError
  /\ last.call = NoCall
  /\ last.res # NoRes
  /\ inflight = EmptyBag

(* C25: what the store holds under a token never changes while the token   *)
(* stays in the store.                                                     *)
C25_SessionsImmutable ==
  [][\A t \in DOMAIN otpSessions :
       t \in DOMAIN otpSessions' => otpSessions'[t] = otpSessions[t]]_vars

(* C26: a record added to the User collection by verify-otp-signup has the *)
(* aadharNo, phone, fullName, state, district and cognitoId of a session   *)
(* created under the request's token, the cognitoId being the one in the   *)
(* answer of create-user-send-otp, and isVerified true.                    *)
C26_RecordFromSession ==
  [][users' # users
       => /\ last'.req.kind = "verify-otp-signup"
          /\ \E u \in users' \ users, c \in created :
               /\ users' = users \cup {u}
               /\ c[1] = last'.req.sessionToken
               /\ u.aadharNo = c[2].aadharNo
               /\ u.phone = c[2].phone
               /\ u.fullName = c[2].fullName
               /\ u.state = c[2].state
               /\ u.district = c[2].district
               /\ u.cognitoId = c[2].cognitoId
               /\ u.isVerified = TRUE]_vars

(* C27: the result of formatPhoneNumber is '+' followed only by digits,    *)
(* for every input string.                                                 *)
C27_PhoneE164 ==
  [][(Runs /\ last'.req.kind = "formatPhoneNumber")
       => LET r == last'.res.result IN
          /\ Len(r) >= 1
          /\ r[1] = "+"
          /\ \A i \in 2..Len(r) : r[i] \in Digits]_vars

(* C28: a generate-otp request with an aadharNo of the directory is        *)
(* answered success with a sessionToken under which the store holds a      *)
(* session, so that resend-otp and verify-otp-signup find it.              *)
C28_GenerateOtpGivesToken ==
  [][(/\ Runs
      /\ last'.req.kind = "generate-otp"
      /\ last'.req.aadharNo \in DOMAIN directory)
       => /\ last'.res.success
          /\ "sessionToken" \in DOMAIN last'.res
          /\ last'.res.sessionToken \in DOMAIN otpSessions']_vars

(* C29: a verify-otp-signup or verify-login-otp request is answered        *)
(* success only if no other request of the same route has consumed its     *)
(* session since it read it: when it succeeds, the store still holds its   *)
(* token, or the sweep has removed it, or no request of that route has     *)
(* succeeded with the token.                                               *)
C29_ConsumedAtMostOnce ==
  [][(/\ Answers
      /\ last'.req.kind \in {"verify-otp-signup", "verify-login-otp"}
      /\ last'.res.success)
       => \/ last'.req.sessionToken \in DOMAIN otpSessions
          \/ last'.req.sessionToken \in swept
          \/ <<last'.req.kind, last'.req.sessionToken>> \notin consumed]_vars

(* C30: once the sweep has removed the session of a token, a               *)
(* verify-otp-signup request for that token adds no record and is not      *)
(* answered success, even if it read the session before the sweep.         *)
C30_SweptSessionHasNoEffect ==
  [][(/\ Runs
      /\ last'.req.kind = "verify-otp-signup"
      /\ last'.req.sessionToken \in swept
      /\ last'.req.sessionToken \notin DOMAIN otpSessions)
       => /\ users' = users
          /\ last'.res # NoRes => last'.res.success = FALSE]_vars

(* C31: a request with a token of the other flow is refused at once: a     *)
(* verify-otp-signup request with a login_session token enters no adapter  *)
(* method and adds no record, and a verify-login-otp request with a signup *)
(* token does not pass the lookup.                                         *)
C31_TokensOfOwnFlowOnly ==
  [][Runs
       => /\ (/\ last'.req.kind = "verify-otp-signup"
              /\ last'.req.sessionToken.prefix = "login_session")
               => /\ last'.call = NoCall
                  /\ users' = users
                  /\ last'.res # NoRes
                  /\ last'.res.success = FALSE
          /\ (/\ last'.req.kind = "verify-login-otp"
              /\ last'.req.sessionToken.prefix = "session")
               => /\ last'.res # NoRes
                  /\ last'.res.success = FALSE
                  /\ otpSessions' = otpSessions]_vars

(* C32: a run of a handler that answers without success changes neither    *)
(* the session store nor the User collection; a run that changes a store   *)
(* without answering is the save of verify-otp-signup, and the request it  *)
(* belongs to is then answered success.                                    *)
C32_FailureChangesNothing ==
  [][Runs
       => /\ (last'.res # NoRes /\ ~last'.res.success)
               => /\ otpSessions' = otpSessions
                  /\ users' = users
                  /\ created' = created
                  /\ consumed' = consumed
          /\ (last'.res = NoRes
                /\ (otpSessions' # otpSessions \/ users' # users))
               => /\ last'.req.kind = "verify-otp-signup"
                  /\ otpSessions' = otpSessions
                  /\ \E r \in BagToSet(inflight') :
                       r.pc = "saved" /\ r.req = last'.req
          /\ (\E r \in BagToSet(inflight) :
                 /\ r.pc = "saved"
                 /\ r.req = last'.req
                 /\ inflight' = inflight (-) SetToBag({r}))
               => last'.res # NoRes /\ last'.res.success]_vars

\* a verify-login-otp request that passed the lookup and the otp check has
\* just been refused, and the store still holds its session
C32_Witness ==
  /\ last.req.kind = "verify-login-otp"
  /\ last.res = Res(404, FALSE, "User not found")
  /\ last.req.sessionToken \in DOMAIN otpSessions

(* C33: for an account saved by verify-otp-signup, login-password calls    *)
(* verifyPassword with a username that create-user-send-otp gave to        *)
(* createUserAndSendOTP for a signup session of that aadharNo.             *)
C33_LoginUsernameIsRegistered ==
  [][(/\ Runs
      /\ last'.req.kind = "login-password"
      /\ last'.call # NoCall
      /\ \E c \in created :
           c[1].prefix = "session" /\ c[2].aadharNo = last'.req.aadharNo)
       => \E c \in created :
            /\ c[1].prefix = "session"
            /\ c[2].aadharNo = last'.req.aadharNo
            /\ last'.call.username = Sanitize(c[2].fullName)]_vars

(* C34: when verify-otp-signup or resend-otp calls the provider for a      *)
(* signup token, the username of the call is the username that every       *)
(* create-user-send-otp which issued that token passed to                  *)
(* createUserAndSendOTP, and a record saved for the token carries it.      *)
C34_SignupUsernameAgrees ==
  [][(/\ Runs
      /\ last'.req.kind \in {"verify-otp-signup", "resend-otp"}
      /\ last'.req.sessionToken # NoToken
      /\ last'.req.sessionToken.prefix = "session")
       => /\ last'.call # NoCall
               => \A c \in created :
                    c[1] = last'.req.sessionToken
                      => last'.call.username = Sanitize(c[2].fullName)
          /\ \A u \in users' \ users :
               \A c \in created :
                 c[1] = last'.req.sessionToken
                   => u.username = Sanitize(c[2].fullName)]_vars

(* C35: formatPhoneNumber applied to its own result gives that result      *)
(* again, for every input string, and a phone of the directory's format    *)
(* ('+91' and ten digits) is returned as it is.                            *)
C35_FormatIdempotent ==
  [][(Runs /\ last'.req.kind = "formatPhoneNumber")
       => /\ formatPhoneNumber(last'.res.result) = last'.res.result
          /\ PhoneMatches(last'.req.phone)
               => last'.res.result = last'.req.phone]_vars

(* C36: cacheGet(key) returns undefined for a key that was never set;      *)
(* for a key that was set it returns the value of the latest cacheSet      *)
(* while the clock is at most one hour past that cacheSet and leaves the   *)
(* cache as it is, and later it returns undefined and the cache holds no   *)
(* entry for the key.                                                      *)
C36_CacheNeverStale ==
  [][(Runs /\ last'.req.kind = "cacheGet")
       => LET key == last'.req.key
              result == last'.res.result
          IN IF key \notin DOMAIN cacheSets
               THEN result = Undefined /\ translationCache' = translationCache
             ELSE IF now <= cacheSets[key].at + TRANSLATION_TTL_MS
               THEN /\ result = cacheSets[key].value
                    /\ translationCache' = translationCache
             ELSE /\ result = Undefined
                  /\ key \notin DOMAIN translationCache'
                  /\ \A k \in DOMAIN translationCache' :
                       /\ k \in DOMAIN translationCache
                       /\ translationCache'[k] = translationCache[k]]_vars

\* cacheGet has found an entry past its deadline and removed it
C36_Witness ==
  /\ last.req.kind = "cacheGet"
  /\ last.req.key \in DOMAIN cacheSets
  /\ now > cacheSets[last.req.key].at + TRANSLATION_TTL_MS
  /\ last.res.result = Undefined
  /\ last.req.key \notin DOMAIN translationCache

====
